---- MODULE Spec2Model ----
(***************************************************************************)
(* State machine of src/src/App.js: the App component's state, the         *)
(* debounced fetchWeatherData, the two effects run on mount, toggleUnit,   *)
(* handleRefresh, the city selection and the localStorage cache slot.      *)
(***************************************************************************)
EXTENDS Integers, Sequences, FiniteSets, TLC

\* ------------------------------------------------------------------ bounds
MaxFetches == 2      \* fetch cycles that may start in one run
MaxBurst   == 2      \* debounced calls counted between two fetch starts
TickMs     == 150    \* milliseconds one clock tick stands for

\* ------------------------------------------------------- program constants
WAIT == 300

DEFAULT_CITY == "Delhi"

Cities == {"Delhi", "Paris"}

\* JS null of an object-valued field (weatherData, forecastData, lastUpdated,
\* the parsed cache, the absent storage item)
Null == <<>>

\* JS null of the string-valued field error, and lodash's cleared lastArgs
NoError == "null"

\* messages of the errors the catch clause can see
CityNotFound == "City not found"
NetworkMsg   == "Failed to fetch"
ParseMsg     == "Unexpected token < in JSON"
QuotaMsg     == "QuotaExceededError"

VARIABLES
    phase,        \* "rendered" (constructed, effects not run), "mounted", "unmounted"
    ui,           \* the seven useState cells of App
    cache,        \* localStorage[CACHE_KEY]: Null when absent, else its text
    debounce,     \* the lodash debounce wrapper: timer and last arguments
    flights,      \* the invocations of the async function, by start order
    fetchStarted, \* number of invocations started
    \* history
    quiet,        \* ms since the last debounced call (capped at WAIT)
    burst,        \* debounced calls since the last fetch start (capped at MaxBurst)
    lastTrigger,  \* cityName of the last debounced call
    lateSetters,  \* setters the last completion invoked on the torn-down component
    raised,       \* the startup effect threw
    boot,         \* "rendered" before the mount; then the city the startup resolved,
                  \* while its debounced calls are pending and no selection or
                  \* refresh has joined them; "over" afterwards
    last          \* the invocation that completed last, and how

hist == <<quiet, burst, lastTrigger, lateSetters, raised, boot, last>>

vars == <<phase, ui, cache, debounce, flights, fetchStarted, hist>>

Min(a, b) == IF a < b THEN a ELSE b

Max(a, b) == IF a > b THEN a ELSE b

\* ------------------------------------------------------------- the payloads
\* the parsed body of endpoint ep for city c
Body(ep, c) == <<ep, c>>

\* new Date().toISOString(): the clock reading when invocation n completes
\* (0: before this run), and the milliseconds that passed since its first reading
Stamp(n, ms) == <<n, ms>>

\* ------------------------------------------------------------ JSON / storage
\* JSON.stringify(cacheData): the text, token by token
JSONstringify(r) ==
    <<"{", "city", r.city, "weatherData", r.weatherData,
      "forecastData", r.forecastData, "lastUpdated", r.lastUpdated, "}">>

\* a stored text that is no JSON
Malformed == <<"{", "city">>

WellFormed(text) ==
    /\ Len(text) = 10
    /\ text[1] = "{" /\ text[10] = "}"
    /\ text[2] = "city" /\ text[4] = "weatherData"
    /\ text[6] = "forecastData" /\ text[8] = "lastUpdated"

JSONparse_Swapped(item) ==
    IF item = Null THEN [kind |-> "null"]
    ELSE IF WellFormed(item)
         THEN [kind |-> "object", city |-> item[3], weatherData |-> item[7],
               forecastData |-> item[5], lastUpdated |-> item[9]]
         ELSE [kind |-> "SyntaxError"]

\* JSON.parse(localStorage.getItem(CACHE_KEY)): getItem gives null for an
\* absent item, which JSON.parse reads as the text "null"
JSONparse(item) ==
    IF item = Null THEN [kind |-> "null"]
    ELSE IF WellFormed(item)
         THEN [kind |-> "object", city |-> item[3], weatherData |-> item[5],
               forecastData |-> item[7], lastUpdated |-> item[9]]
         ELSE [kind |-> "SyntaxError"]

\* ------------------------------------------------------------ state updates
\* useState defaults
InitialUI ==
    [city |-> DEFAULT_CITY, weatherData |-> Null, forecastData |-> Null,
     isLoading |-> TRUE, error |-> NoError, unit |-> "celsius",
     lastUpdated |-> Null]

\* setIsLoading(true); setError(null)
OnStart(s) == [s EXCEPT !.isLoading = TRUE, !.error = NoError]

\* a completion that gives way to a cycle started after its own
OnSuccess_Guarded(s, w, f, t) ==
    IF fetchStarted > t[1] THEN s
    ELSE [s EXCEPT !.weatherData = w, !.forecastData = f, !.lastUpdated = t]

\* setWeatherData; setForecastData; setLastUpdated
OnSuccess(s, w, f, t) ==
    [s EXCEPT !.weatherData = w, !.forecastData = f, !.lastUpdated = t]

\* the message of the error the catch clause receives
CatchMessage_Fixed(cause) == CityNotFound

CatchMessage(cause) ==
    CASE cause = "status"  -> CityNotFound
      [] cause = "network" -> NetworkMsg
      [] cause = "parse"   -> ParseMsg
      [] cause = "quota"   -> QuotaMsg

\* catch (err) { setError(err.message) }
OnCatch_ClearsData(s, msg) ==
    [s EXCEPT !.error = msg, !.weatherData = Null, !.forecastData = Null]

OnCatch_Swallows(s, msg) == s

OnCatch(s, msg) == [s EXCEPT !.error = msg]

\* finally { setIsLoading(false) }
OnFinally_Skipped(s) == s

OnFinally(s) == [s EXCEPT !.isLoading = FALSE]

\* the five setters of the startup effect
Hydrate(s, cachedData) ==
    [s EXCEPT !.city = cachedData.city,
              !.weatherData = cachedData.weatherData,
              !.forecastData = cachedData.forecastData,
              !.lastUpdated = cachedData.lastUpdated,
              !.isLoading = FALSE]

\* setUnit(prev => ...)
FlipUnit(u) == IF u = "celsius" THEN "fahrenheit" ELSE "celsius"

\* React drops the updates of a component that is no longer mounted
Commit(s) == IF phase = "unmounted" THEN ui ELSE s

\* ------------------------------------------------------------------ debounce
IdleDebounce == [pending |-> FALSE, remaining |-> 0, lastArgs |-> NoError]

\* one call of the debounced function: remember the arguments, restart the wait
Debounced_KeepsTimer(d, cityName) ==
    [pending |-> TRUE,
     remaining |-> IF d.pending THEN d.remaining ELSE WAIT,
     lastArgs |-> cityName]

Debounced_KeepsArgs(d, cityName) ==
    [pending |-> TRUE, remaining |-> WAIT,
     lastArgs |-> IF d.pending THEN d.lastArgs ELSE cityName]

Debounced(d, cityName) ==
    [pending |-> TRUE, remaining |-> WAIT, lastArgs |-> cityName]

RECURSIVE DebounceAll(_, _)
DebounceAll(d, calls) ==
    IF calls = <<>> THEN d
    ELSE DebounceAll(Debounced(d, Head(calls)), Tail(calls))

\* the debounced calls of the mount: the startup effect, the city effect of the
\* first render, and the city effect again when the hydrated city differs
MountCalls_NoRerun(s0, s1, first) == <<first, s0.city>>

MountCalls(s0, s1, first) ==
    <<first, s0.city>> \o (IF s1.city # s0.city THEN <<s1.city>> ELSE <<>>)

\* ------------------------------------------------------------------- flights
\* live: the component was mounted when the invocation started
IdleFlight == [pc |-> "idle", city |-> NoError, wok |-> FALSE, wbody |-> Null,
               live |-> FALSE]

DoneFlight == [IdleFlight EXCEPT !.pc = "done"]

InFlight(id) == flights[id].pc \notin {"idle", "done"}

AnyInFlight == \E id \in 1..MaxFetches : InFlight(id)

NoCompletion == [outcome |-> "none", cause |-> "none"]

Completion(outcome, cause) == [outcome |-> outcome, cause |-> cause]

\* ---------------------------------------------------------------------- Init
InitialRecords ==
    { [city |-> c, weatherData |-> Body("weather", c),
       forecastData |-> Body("forecast", c), lastUpdated |-> Stamp(0, 0)]
      : c \in Cities }

Init ==
    /\ phase = "rendered"
    /\ ui = InitialUI
    /\ cache \in {Null, Malformed} \cup { JSONstringify(r) : r \in InitialRecords }
    /\ debounce = IdleDebounce
    /\ flights = [id \in 1..MaxFetches |-> IdleFlight]
    /\ fetchStarted = 0
    /\ quiet = WAIT
    /\ burst = 0
    /\ lastTrigger = NoError
    /\ lateSetters = {}
    /\ raised = FALSE
    /\ boot = "rendered"
    /\ last = NoCompletion

\* ------------------------------------------------------------------- actions
\* the model follows MaxFetches fetch cycles: a debounced call is followed when
\* it joins the pending one or a cycle is left for it
CanCall == debounce.pending \/ fetchStarted < MaxFetches

\* bookkeeping of a sequence of debounced calls
Triggered(calls) ==
    /\ quiet' = 0
    /\ burst' = Min(burst + Len(calls), MaxBurst)
    /\ lastTrigger' = calls[Len(calls)]

\* the two effects of the first commit (lines 61-75)
Mount ==
    /\ phase = "rendered"
    /\ LET cachedData == JSONparse(cache) IN
       IF cachedData.kind = "SyntaxError"
       THEN \* JSON.parse throws inside the effect; React tears the tree down.
            \* Whether the second effect still runs depends on the React build.
            /\ raised' = TRUE
            /\ boot' = "over"
            /\ phase' = "unmounted"
            /\ ui' = ui
            /\ \E ran \in BOOLEAN :
                 IF ran
                 THEN /\ debounce' = Debounced(debounce, ui.city)
                      /\ Triggered(<<ui.city>>)
                 ELSE UNCHANGED <<debounce, quiet, burst, lastTrigger>>
       ELSE LET s1 == IF cachedData.kind = "object"
                      THEN Hydrate(ui, cachedData) ELSE ui
                first == IF cachedData.kind = "object"
                         THEN cachedData.city ELSE ui.city
                calls == MountCalls(ui, s1, first)
            IN /\ raised' = FALSE
               /\ boot' = first
               /\ phase' = "mounted"
               /\ ui' = s1
               /\ debounce' = DebounceAll(debounce, calls)
               /\ Triggered(calls)
    /\ UNCHANGED <<cache, flights, fetchStarted, lateSetters, last>>

\* CitySearch calls onCitySelect = setCity; the city effect follows (lines 73-75, 89)
SelectCity(c) ==
    /\ phase = "mounted"
    /\ c # ui.city
    /\ CanCall
    /\ ui' = [ui EXCEPT !.city = c]
    /\ debounce' = Debounced(debounce, c)
    /\ Triggered(<<c>>)
    /\ boot' = "over"
    /\ UNCHANGED <<phase, cache, flights, fetchStarted, lateSetters, raised, last>>

\* a refresh that drops the stored record
handleRefresh_ClearsCache ==
    /\ phase = "mounted"
    /\ CanCall
    /\ cache' = Null
    /\ debounce' = Debounced(debounce, ui.city)
    /\ Triggered(<<ui.city>>)
    /\ boot' = "over"
    /\ UNCHANGED <<phase, ui, flights, fetchStarted, lateSetters, raised, last>>

\* lines 81-83
handleRefresh ==
    /\ phase = "mounted"
    /\ CanCall
    /\ debounce' = Debounced(debounce, ui.city)
    /\ Triggered(<<ui.city>>)
    /\ boot' = "over"
    /\ UNCHANGED <<phase, ui, cache, flights, fetchStarted, lateSetters, raised, last>>

toggleUnit_Refetches ==
    /\ phase = "mounted"
    /\ CanCall
    /\ ui' = [ui EXCEPT !.unit = FlipUnit(@)]
    /\ debounce' = Debounced(debounce, ui.city)
    /\ Triggered(<<ui.city>>)
    /\ UNCHANGED <<phase, cache, flights, fetchStarted, lateSetters, raised,
                   boot, last>>

\* lines 77-79
toggleUnit ==
    /\ phase = "mounted"
    /\ ui' = [ui EXCEPT !.unit = FlipUnit(@)]
    /\ UNCHANGED <<phase, cache, debounce, flights, fetchStarted, hist>>

\* the component is torn down; neither effect returns a cleanup
Unmount ==
    /\ phase = "mounted"
    /\ phase' = "unmounted"
    /\ UNCHANGED <<ui, cache, debounce, flights, fetchStarted, hist>>

\* time passes
Tick ==
    /\ quiet < WAIT \/ (debounce.pending /\ debounce.remaining > 0)
    /\ quiet' = Min(quiet + TickMs, WAIT)
    /\ debounce' = IF debounce.pending
                   THEN [debounce EXCEPT !.remaining = Max(0, @ - TickMs)]
                   ELSE debounce
    /\ UNCHANGED <<phase, ui, cache, flights, fetchStarted,
                   burst, lastTrigger, lateSetters, raised, boot, last>>

\* the setters a completion invokes although the component went away under it
Late(id, names) ==
    IF phase = "unmounted" /\ flights[id].live THEN names ELSE lateSetters

\* the debounce timer fires: the async function starts (lines 22-28)
StartFetch ==
    /\ debounce.pending
    /\ debounce.remaining = 0
    /\ fetchStarted < MaxFetches
    /\ fetchStarted' = fetchStarted + 1
    /\ flights' = [flights EXCEPT ![fetchStarted + 1] =
                      [IdleFlight EXCEPT !.pc = "awaitWeather",
                                         !.city = debounce.lastArgs,
                                         !.live = (phase = "mounted")]]
    /\ debounce' = IdleDebounce
    /\ ui' = Commit(OnStart(ui))
    /\ burst' = 0
    /\ lastTrigger' = NoError
    /\ boot' = "over"
    /\ UNCHANGED <<phase, cache, quiet, lateSetters, raised, last>>

\* catch and finally (lines 52-56)
Fail(id, cause) ==
    /\ flights' = [flights EXCEPT ![id] = DoneFlight]
    /\ last' = Completion("failed", cause)
    /\ ui' = Commit(OnFinally(OnCatch(ui, CatchMessage(cause))))
    /\ lateSetters' = Late(id, {"setError", "setIsLoading"})
    /\ UNCHANGED <<phase, cache, debounce, fetchStarted,
                   quiet, burst, lastTrigger, raised, boot>>

Continue(id, fl) ==
    /\ flights' = [flights EXCEPT ![id] = fl]
    /\ UNCHANGED <<phase, ui, cache, debounce, fetchStarted, hist>>

\* the first request settles; the second is issued (lines 26-31)
WeatherResponds(id) ==
    /\ flights[id].pc = "awaitWeather"
    /\ \E r \in {"ok", "notok", "reject"} :
         IF r = "reject" THEN Fail(id, "network")
         ELSE Continue(id, [flights[id] EXCEPT !.pc = "awaitForecast",
                                               !.wok = (r = "ok")])

\* the second request settles; the statuses are checked (lines 29-37)
ForecastResponds(id) ==
    /\ flights[id].pc = "awaitForecast"
    /\ \E r \in {"ok", "notok", "reject"} :
         IF r = "reject" THEN Fail(id, "network")
         ELSE IF ~flights[id].wok \/ r = "notok" THEN Fail(id, "status")
         ELSE Continue(id, [flights[id] EXCEPT !.pc = "awaitWeatherJson",
                                               !.wok = FALSE])

\* a cycle that shows the weather body before the forecast body is read
WeatherParsed_InstallsEarly(id) ==
    /\ flights[id].pc = "awaitWeatherJson"
    /\ \E parsed \in BOOLEAN :
         IF ~parsed THEN Fail(id, "parse")
         ELSE /\ flights' = [flights EXCEPT ![id] =
                                [@ EXCEPT !.pc = "awaitForecastJson",
                                          !.wbody = Body("weather", flights[id].city)]]
              /\ ui' = Commit([ui EXCEPT
                                 !.weatherData = Body("weather", flights[id].city)])
              /\ UNCHANGED <<phase, cache, debounce, fetchStarted, hist>>

\* weatherResponse.json() settles (lines 37-38)
WeatherParsed(id) ==
    /\ flights[id].pc = "awaitWeatherJson"
    /\ \E parsed \in BOOLEAN :
         IF ~parsed THEN Fail(id, "parse")
         ELSE Continue(id, [flights[id] EXCEPT
                               !.pc = "awaitForecastJson",
                               !.wbody = Body("weather", flights[id].city)])

\* the record the success path caches (lines 45-50)
CacheData_StateCity(cityName, w, f, t) ==
    [city |-> ui.city, weatherData |-> w, forecastData |-> f, lastUpdated |-> t]

CacheData(cityName, w, f, t) ==
    [city |-> cityName, weatherData |-> w, forecastData |-> f, lastUpdated |-> t]

\* forecastResponse.json() settles; setters, cache write, finally (lines 38-56)
ForecastParsed(id) ==
    /\ flights[id].pc = "awaitForecastJson"
    /\ \E parsed \in BOOLEAN :
         IF ~parsed THEN Fail(id, "parse")
         ELSE LET w == flights[id].wbody
                  f == Body("forecast", flights[id].city)
                  s1 == OnSuccess(ui, w, f, Stamp(id, 0))
              IN \E stored \in BOOLEAN, ms \in {0, 1} :
                   /\ IF stored
                      THEN /\ cache' = JSONstringify(
                                  CacheData(flights[id].city, w, f, Stamp(id, ms)))
                           /\ ui' = Commit(OnFinally(s1))
                           /\ last' = Completion("success", "none")
                           /\ lateSetters' = Late(id, {"setWeatherData", "setForecastData",
                                                   "setLastUpdated", "setIsLoading"})
                      ELSE /\ ms = 0
                           /\ cache' = cache
                           /\ ui' = Commit(OnFinally(OnCatch(s1, CatchMessage("quota"))))
                           /\ last' = Completion("writeFailed", "quota")
                           /\ lateSetters' = Late(id, {"setWeatherData", "setForecastData",
                                                   "setLastUpdated", "setError",
                                                   "setIsLoading"})
                   /\ flights' = [flights EXCEPT ![id] = DoneFlight]
                   /\ UNCHANGED <<phase, debounce, fetchStarted,
                                  quiet, burst, lastTrigger, raised, boot>>

Next ==
    \/ Mount
    \/ \E c \in Cities : SelectCity(c)
    \/ handleRefresh
    \/ toggleUnit
    \/ Unmount
    \/ Tick
    \/ StartFetch
    \/ \E id \in 1..MaxFetches : WeatherResponds(id)
    \/ \E id \in 1..MaxFetches : ForecastResponds(id)
    \/ \E id \in 1..MaxFetches : WeatherParsed(id)
    \/ \E id \in 1..MaxFetches : ForecastParsed(id)

Spec == Init /\ [][Next]_vars

\* The same steps, with bursts of at most MaxBurst debounced calls, a clock that
\* keeps running, a timer that fires when due and requests and body reads that
\* settle.
FairNext ==
    \/ Mount
    \/ (burst < MaxBurst /\ \E c \in Cities : SelectCity(c))
    \/ (burst < MaxBurst /\ handleRefresh)
    \/ toggleUnit
    \/ Unmount
    \/ Tick
    \/ StartFetch
    \/ \E id \in 1..MaxFetches : WeatherResponds(id)
    \/ \E id \in 1..MaxFetches : ForecastResponds(id)
    \/ \E id \in 1..MaxFetches : WeatherParsed(id)
    \/ \E id \in 1..MaxFetches : ForecastParsed(id)

Settles(id) ==
    WeatherResponds(id) \/ ForecastResponds(id) \/ WeatherParsed(id)
        \/ ForecastParsed(id)

FairSpec ==
    /\ Init
    /\ [][FairNext]_vars
    /\ WF_vars(Mount)
    /\ WF_vars(Tick)
    /\ WF_vars(StartFetch)
    /\ \A id \in 1..MaxFetches : WF_vars(Settles(id))

\* ==================================================================== claims
\* invocation id completes in this step
Completes(id) == InFlight(id) /\ flights'[id].pc = "done"

\* the storage slot holds a well-formed record
Cached == JSONparse(cache).kind = "object"

\* C1: a burst of debounced calls, each less than WAIT ms after the previous
\* one, leads to exactly one start of the async function: while calls are
\* outstanding the single pending slot holds the last call's city, the start
\* comes only once WAIT ms have passed since the last call, it uses that city,
\* and it consumes the whole burst.
C1_DebounceCollapsesBurst ==
    /\ [](burst >= 1 => /\ debounce.pending
                        /\ debounce.lastArgs = lastTrigger)
    /\ [][fetchStarted' # fetchStarted =>
            /\ fetchStarted' = fetchStarted + 1
            /\ burst >= 1
            /\ quiet >= WAIT
            /\ flights'[fetchStarted'].city = lastTrigger
            /\ flights'[fetchStarted'].pc = "awaitWeather"
            /\ burst' = 0
            /\ ~debounce'.pending]_vars

\* no cache at startup, a selection of Paris inside the startup window: the one
\* fetch that started is for Paris
C1_Witness ==
    /\ cache = Null
    /\ fetchStarted = 1
    /\ flights[1].pc = "awaitWeather"
    /\ flights[1].city = "Paris"
    /\ ui.city = "Paris"
    /\ ~debounce.pending

\* C2: once the component is torn down (by an unmount, not by the startup
\* throwing), a debounced call that was pending never starts the fetch.
C2_PendingCallDiscarded ==
    [][(phase = "unmounted" /\ ~raised) => fetchStarted' = fetchStarted]_vars

\* C3: the completion of a fetch that was in flight when the component was
\* torn down invokes no setter.
C3_NoSetterAfterTeardown == ~raised => lateSetters = {}

\* C4: whatever the cache slot holds, the startup does not raise: absent or
\* malformed content leaves UIState at its defaults and triggers the debounced
\* fetch for the default city.
C4_StartupNeverRaises ==
    [][(phase = "rendered" /\ phase' # "rendered" /\ ~Cached) =>
          /\ ~raised'
          /\ phase' = "mounted"
          /\ ui' = InitialUI
          /\ debounce'.pending
          /\ debounce'.lastArgs = DEFAULT_CITY]_vars

C6_SuccessState ==
    [][\A id \in 1..MaxFetches :
          (Completes(id) /\ last'.outcome = "success" /\ phase = "mounted") =>
              /\ ~ui'.isLoading
              /\ ui'.error = NoError
              /\ ui'.weatherData = Body("weather", flights[id].city)
              /\ ui'.forecastData = Body("forecast", flights[id].city)
              /\ ui'.lastUpdated # Null]_vars

\* C7: a fetch cycle that rejects changes isLoading (to false) and error (to
\* the message) and nothing else: weatherData, forecastData, lastUpdated, city
\* and unit keep their values.
C7_FailureFrame ==
    [][\A id \in 1..MaxFetches :
          (Completes(id) /\ last'.outcome = "failed") =>
              /\ ui'.weatherData = ui.weatherData
              /\ ui'.forecastData = ui.forecastData
              /\ ui'.lastUpdated = ui.lastUpdated
              /\ ui'.city = ui.city
              /\ ui'.unit = ui.unit
              /\ phase = "mounted" =>
                    /\ ~ui'.isLoading
                    /\ ui'.error \in {CityNotFound, NetworkMsg, ParseMsg}]_vars

\* a failure shown above the data of an earlier success
C7_Witness ==
    /\ phase = "mounted"
    /\ last.outcome = "failed"
    /\ ui.error = CityNotFound
    /\ ui.weatherData = Body("weather", "Paris")
    /\ ui.forecastData = Body("forecast", "Paris")
    /\ ui.lastUpdated = Stamp(1, 0)
    /\ ~ui.isLoading

\* C8 as claimed: isLoading = true implies a fetch in flight, in every state.
C8_LoadingOnlyInFlight == ui.isLoading => AnyInFlight

\* C8 as amended: in the mounted component, once the first fetch cycle has
\* started, isLoading = true implies a fetch in flight; before that start
\* isLoading is true exactly when no cache record was hydrated.
C8_LoadingOnlyInFlightOnceStarted ==
    /\ (phase = "mounted" /\ fetchStarted >= 1 /\ ui.isLoading) => AnyInFlight
    /\ (phase = "mounted" /\ fetchStarted = 0) => (ui.isLoading <=> ~Cached)

C8_Witness ==
    /\ phase = "mounted"
    /\ fetchStarted = 2
    /\ flights[1].pc = "done"
    /\ InFlight(2)
    /\ ui.isLoading

\* the city the startup resolves from the storage slot
ResolvedCity == IF Cached THEN JSONparse(cache).city ELSE DEFAULT_CITY

\* C9: the startup adopts a cached record (city, data, lastUpdated, isLoading
\* = false) before any request is issued, and its debounced calls end in one
\* fetch cycle, for the cached city or else the default city.
C9_StartupHydratesAndFetchesOnce ==
    /\ [](boot \in Cities =>
            /\ fetchStarted = 0
            /\ boot = ResolvedCity
            /\ debounce.pending
            /\ debounce.lastArgs = ResolvedCity
            /\ burst >= 2
            /\ Cached => /\ ui.city = JSONparse(cache).city
                         /\ ui.weatherData = JSONparse(cache).weatherData
                         /\ ui.forecastData = JSONparse(cache).forecastData
                         /\ ui.lastUpdated = JSONparse(cache).lastUpdated
                         /\ ~ui.isLoading
            /\ ~Cached => ui = [InitialUI EXCEPT !.unit = ui.unit])
    /\ [][(boot \in Cities /\ fetchStarted' # fetchStarted) =>
            /\ fetchStarted' = 1
            /\ flights'[1].city = ResolvedCity
            /\ ~debounce'.pending]_vars

\* the cached Paris is on screen while the one startup fetch, for Paris, runs
C9_Witness ==
    /\ fetchStarted = 1
    /\ flights[1].pc = "awaitWeather"
    /\ flights[1].city = "Paris"
    /\ Cached
    /\ JSONparse(cache).lastUpdated = Stamp(0, 0)
    /\ ui.city = "Paris"
    /\ ui.weatherData = Body("weather", "Paris")
    /\ ui.lastUpdated = Stamp(0, 0)
    /\ ~debounce.pending

\* the records a success of invocation id for city c can store
RecordsOf(id, c) ==
    { [city |-> c, weatherData |-> Body("weather", c),
       forecastData |-> Body("forecast", c), lastUpdated |-> Stamp(id, ms)]
      : ms \in {0, 1} }

StartedFor(n, c) ==
    /\ fetchStarted = n
    /\ flights[n].pc = "awaitWeather"
    /\ flights[n].city = c

\* C11: a step that changes city by a selection leaves the debounced call for
\* the new city pending with the full wait ahead; a pending call is consumed
\* only by the start of a fetch cycle for its city (a later call of the burst
\* may replace that city first, and while App is mounted the pending call is
\* always the one for the current city); and every pending call is consumed.
C11_SelectionLeadsToFetch ==
    /\ []((phase = "mounted" /\ debounce.pending) =>
            debounce.lastArgs = ui.city)
    /\ [][(phase = "mounted" /\ ui'.city # ui.city) =>
            /\ debounce'.pending
            /\ debounce'.lastArgs = ui'.city
            /\ debounce'.remaining = WAIT
            /\ fetchStarted' = fetchStarted]_vars
    /\ [][(debounce.pending /\ ~debounce'.pending) =>
            /\ fetchStarted' = fetchStarted + 1
            /\ flights'[fetchStarted'].pc = "awaitWeather"
            /\ flights'[fetchStarted'].city = debounce.lastArgs]_vars
    /\ debounce.pending ~> ~debounce.pending

\* Delhi is being fetched when Paris is selected; the second cycle is for Paris
C11_Witness ==
    /\ cache = Null
    /\ phase = "mounted"
    /\ ui.city = "Paris"
    /\ InFlight(1)
    /\ flights[1].city = "Delhi"
    /\ StartedFor(2, "Paris")

Units == {"celsius", "fahrenheit"}

\* C12: a step that changes unit moves it to the other one of celsius and
\* fahrenheit and changes nothing else: the other six fields of the state, the
\* cache slot, the debounce timer and the fetch cycles stay as they were; the
\* unit is always one of the two, and flipping it twice gives it back.
C12_ToggleOnlyFlipsUnit ==
    /\ [](ui.unit \in Units /\ FlipUnit(FlipUnit(ui.unit)) = ui.unit)
    /\ [][ui'.unit # ui.unit =>
            /\ ui' = [ui EXCEPT !.unit = CHOOSE u \in Units : u # ui.unit]
            /\ UNCHANGED <<phase, cache, debounce, flights, fetchStarted>>]_vars

\* fahrenheit is shown over hydrated data while a fetch is in flight and a
\* refresh is pending
C12_Witness ==
    /\ phase = "mounted"
    /\ ui.unit = "fahrenheit"
    /\ ui.weatherData # Null
    /\ AnyInFlight
    /\ debounce.pending

\* C13: while the requests and the body reads settle, no fetch cycle stays in
\* flight for ever (from any state with cycles in flight a state with none is
\* reached); the step that completes a cycle, with App mounted, leaves
\* isLoading false whatever the outcome; and with App mounted, no cycle in
\* flight and some cycle completed, isLoading is false.
C13_LoadingClearsOnCompletion ==
    /\ AnyInFlight ~> ~AnyInFlight
    /\ [][\A id \in 1..MaxFetches :
            (Completes(id) /\ phase = "mounted") => ~ui'.isLoading]_vars
    /\ []((phase = "mounted" /\ ~AnyInFlight /\ last.outcome # "none")
            => ~ui.isLoading)

\* two cycles have completed, the last one by a failure, and nothing is loading
C13_Witness ==
    /\ phase = "mounted"
    /\ fetchStarted = MaxFetches
    /\ \A id \in 1..MaxFetches : flights[id].pc = "done"
    /\ last.outcome = "failed"
    /\ ~ui.isLoading

\* the four members of a record read from the slot
Fields(p) ==
    [city |-> p.city, weatherData |-> p.weatherData,
     forecastData |-> p.forecastData, lastUpdated |-> p.lastUpdated]

SuccessTransition(id) ==
    /\ ui'.weatherData = Body("weather", flights[id].city)
    /\ ui'.forecastData = Body("forecast", flights[id].city)
    /\ ui'.lastUpdated = Stamp(id, 0)
    /\ cache' \in { JSONstringify(r) : r \in RecordsOf(id, flights[id].city) }
    /\ ui'.error = ui.error

\* the failure transition: error set, data, time and slot as they were
FailureTransition ==
    /\ ui'.error # NoError
    /\ ui'.weatherData = ui.weatherData
    /\ ui'.forecastData = ui.forecastData
    /\ ui'.lastUpdated = ui.lastUpdated
    /\ cache' = cache

\* C15 as claimed: the step that ends a fetch cycle, with App mounted, is
\* either the success transition or the failure transition and never a mix of
\* the two, whatever the outcome of the requests, of the body reads and of the
\* cache write.
C15_ExactlyOneOutcome ==
    [][\A id \in 1..MaxFetches :
          (Completes(id) /\ phase = "mounted") =>
              (SuccessTransition(id) # FailureTransition)]_vars

\* C16: a cycle that completes successfully after a later cycle has been
\* started still installs its own bodies and time and stores its own record,
\* and after any successful completion the displayed data and the stored
\* record are those of one and the same cycle, the one that completed last.
C16_LastWriteWins ==
    /\ [][\A id \in 1..MaxFetches :
            (/\ Completes(id)
             /\ last'.outcome = "success"
             /\ phase = "mounted"
             /\ fetchStarted > id) =>
                /\ ui'.weatherData = Body("weather", flights[id].city)
                /\ ui'.forecastData = Body("forecast", flights[id].city)
                /\ ui'.lastUpdated = Stamp(id, 0)
                /\ Fields(JSONparse(cache')) \in RecordsOf(id, flights[id].city)]_vars
    /\ []((phase = "mounted" /\ last.outcome = "success") =>
            /\ Cached
            /\ ui.weatherData = JSONparse(cache).weatherData
            /\ ui.forecastData = JSONparse(cache).forecastData
            /\ ui.lastUpdated[1] = JSONparse(cache).lastUpdated[1])

\* the cycle for Delhi, started first, has completed last: Paris is the
\* selected city, the data shown and the record stored are Delhi's
C16_Witness ==
    /\ phase = "mounted"
    /\ fetchStarted = 2
    /\ flights[1].pc = "done" /\ flights[2].pc = "done"
    /\ last.outcome = "success"
    /\ ui.city = "Paris"
    /\ ui.lastUpdated = Stamp(1, 0)
    /\ ui.weatherData = Body("weather", "Delhi")
    /\ Cached
    /\ JSONparse(cache).city = "Delhi"
    /\ JSONparse(cache).lastUpdated[1] = 1

\* C17: a fetch cycle that ends otherwise than by its success path ends in the
\* catch clause, for a rejected request, a non-success status, a body that
\* does not parse or a failed cache write; nothing is raised out of the cycle,
\* and with App mounted the step leaves the message of the caught error in
\* error and isLoading false.
C17_FetchErrorsAreCaught ==
    [][\A id \in 1..MaxFetches :
          (Completes(id) /\ last'.outcome # "success") =>
              /\ last'.cause \in {"network", "status", "parse", "quota"}
              /\ raised' = raised
              /\ flights'[id] = DoneFlight
              /\ phase = "mounted" =>
                    /\ ui'.error \in {NetworkMsg, CityNotFound, ParseMsg, QuotaMsg}
                    /\ ui'.error # NoError
                    /\ ~ui'.isLoading]_vars

\* a body that did not parse has ended the second cycle: its message is shown
\* and nothing is loading
C17_Witness ==
    /\ phase = "mounted"
    /\ ~raised
    /\ fetchStarted = 2
    /\ flights[2].pc = "done"
    /\ last = Completion("failed", "parse")
    /\ ui.error = ParseMsg
    /\ ~ui.isLoading

\* the two values are the two bodies fetched for one city
PairFor(w, f) ==
    \E c \in Cities : w = Body("weather", c) /\ f = Body("forecast", c)

\* C18: weatherData and forecastData are both null or the two bodies of one
\* city; a stored record holds the two bodies of its own city; and a step that
\* changes either of the two fields is the startup installing both from the
\* stored record or the completion of one fetch cycle installing both of its
\* bodies, with its time stamp, whatever other cycles are in flight.
C18_SnapshotConsistency ==
    /\ []((ui.weatherData = Null) <=> (ui.forecastData = Null))
    /\ [](ui.weatherData # Null => PairFor(ui.weatherData, ui.forecastData))
    /\ [](Cached =>
            /\ JSONparse(cache).weatherData = Body("weather", JSONparse(cache).city)
            /\ JSONparse(cache).forecastData = Body("forecast", JSONparse(cache).city))
    /\ [][(ui'.weatherData # ui.weatherData \/ ui'.forecastData # ui.forecastData) =>
            \/ /\ phase = "rendered"
               /\ Cached
               /\ ui'.weatherData = JSONparse(cache).weatherData
               /\ ui'.forecastData = JSONparse(cache).forecastData
               /\ ui'.lastUpdated = JSONparse(cache).lastUpdated
            \/ \E id \in 1..MaxFetches :
                 /\ Completes(id)
                 /\ ui'.weatherData = Body("weather", flights[id].city)
                 /\ ui'.forecastData = Body("forecast", flights[id].city)
                 /\ ui'.lastUpdated = Stamp(id, 0)]_vars

\* the data of the first cycle, for Delhi, are shown while the second cycle,
\* for Paris, holds its weather body and waits for its forecast body
C18_Witness ==
    /\ phase = "mounted"
    /\ ui.lastUpdated = Stamp(1, 0)
    /\ PairFor(ui.weatherData, ui.forecastData)
    /\ ui.forecastData = Body("forecast", "Delhi")
    /\ flights[2].pc = "awaitForecastJson"
    /\ flights[2].city = "Paris"
    /\ flights[2].wbody = Body("weather", "Paris")

\* C19: a step that changes the cache slot is the last step of a fetch cycle
\* that had both responses successful and the weather body read, reads the
\* forecast body and ends in success, and it stores a record of that cycle;
\* every other step (a failing cycle, toggleUnit, handleRefresh, a city
\* selection, the startup) leaves the slot as it was.
C19_CacheWrittenOnlyBySuccess ==
    [][cache' # cache =>
          \E id \in 1..MaxFetches :
              /\ flights[id].pc = "awaitForecastJson"
              /\ flights[id].wbody = Body("weather", flights[id].city)
              /\ Completes(id)
              /\ last' = Completion("success", "none")
              /\ Fields(JSONparse(cache')) \in RecordsOf(id, flights[id].city)]_vars

\* the record of the first cycle is still stored after the second cycle has
\* failed and the unit has been toggled
C19_Witness ==
    /\ Cached
    /\ JSONparse(cache).lastUpdated[1] = 1
    /\ fetchStarted = 2
    /\ flights[2].pc = "done"
    /\ last.outcome = "failed"
    /\ ui.unit = "fahrenheit"

====
